---- MODULE Spec2Model ----
(***************************************************************************)
(* Invoice cleaning pipeline (backend/data/run_validations.py) and the     *)
(* Invoice Insights API (backend/app.py).                                  *)
(*                                                                         *)
(* A table is a sequence of rows; the position of a row is its pandas      *)
(* index label.  A row maps each column name to a cell.  A cell is a       *)
(* tagged record: a number, a string (a sequence of characters), a python  *)
(* date, a pandas Timestamp, or one of the two missing markers NaN / NaT.  *)
(*                                                                         *)
(* Input domain: the reference and date columns hold strings or NaN        *)
(* (object dtype); client, amount and days columns hold numbers or NaN.    *)
(***************************************************************************)
EXTENDS Integers, Sequences, FiniteSets, TLC

VARIABLES
    input,      \* the table handed to clean_and_validate for the current run
    df,         \* local 'df' of clean_and_validate, threaded through the rules
    dtype,      \* numpy dtype kind of every column of df ("i", "f", "O")
    report,     \* local 'report' of clean_and_validate
    pc,         \* the rule clean_and_validate runs next, or "done"
    run,        \* 1: first cleaning, 2: cleaning the cleaned table again
    first,      \* (table, report) returned by the first run, kept for run 2
    trace,      \* history: one entry per rule executed in the current run
    api,        \* module state of app.py: loaded flag, df, companies
    resp        \* the last HTTP response

vars == <<input, df, dtype, report, pc, run, first, trace, api, resp>>

-----------------------------------------------------------------------------
(* Bounds *)
MaxRows == 2
MaxAmt == 2

-----------------------------------------------------------------------------
(* Column names *)
COL_REF == "Invoice Reference"
COL_CLIENT == "Client Name"
COL_DAYS == "No. Days taken to Pay"
COL_INV_AMT == "Invoice Amount"
COL_PAID_AMT == "Paid Amount"
COL_DATE_INV == "Date Invoiced"
COL_DATE_PAID == "Date Paid"
DATE_COLS == <<COL_DATE_INV, COL_DATE_PAID>>
Cols == {COL_CLIENT, COL_REF, COL_DATE_INV, COL_INV_AMT, COL_PAID_AMT,
         COL_DATE_PAID, COL_DAYS}

(* Cells *)
NaN == [k |-> "nan"]
NaT == [k |-> "nat"]
Num(n) == [k |-> "num", v |-> n]
Str(s) == [k |-> "str", s |-> s]
Date(d) == [k |-> "date", d |-> d]
Ts(d) == [k |-> "ts", d |-> d]

\* pd.isna
isna(x) == x.k \in {"nan", "nat"}

MkRow(client, ref, dinv, inv, paid, dpaid, days) ==
    (COL_CLIENT :> client) @@ (COL_REF :> ref) @@ (COL_DATE_INV :> dinv) @@
    (COL_INV_AMT :> inv) @@ (COL_PAID_AMT :> paid) @@
    (COL_DATE_PAID :> dpaid) @@ (COL_DAYS :> days)

\* the rows of t with index label in S (t.loc[mask]), keyed by their index label
Rows(t, S) == [i \in S |-> t[i]]

EmptyReport == [i \in {} |-> NaN]

-----------------------------------------------------------------------------
(* Strings *)
Digits == {"0", "1", "2", "3", "4", "5", "6", "7", "8", "9"}

\* str.upper on one character
UpperChar(c) ==
    CASE c = "a" -> "A" [] c = "i" -> "I" [] c = "n" -> "N" [] c = "v" -> "V"
      [] OTHER -> c

RECURSIVE MapUpper(_)
MapUpper(s) == IF s = <<>> THEN <<>> ELSE <<UpperChar(Head(s))>> \o MapUpper(Tail(s))

\* s.replace(old, new) for single characters; new = "" deletes
RECURSIVE Replace(_, _, _)
Replace(s, old, new) ==
    IF s = <<>> THEN <<>>
    ELSE (IF Head(s) = old THEN new ELSE <<Head(s)>>) \o Replace(Tail(s), old, new)

\* INV_REF_PATTERN = ^\d{4}-\d+$
MatchesPattern(s) ==
    /\ Len(s) >= 6
    /\ \A i \in 1..4 : s[i] \in Digits
    /\ s[5] = "-"
    /\ \A i \in 6..Len(s) : s[i] \in Digits

\* Series.str.match(INV_REF_PATTERN, na=False) on one cell
str_match(cell) == IF cell.k = "str" THEN MatchesPattern(cell.s) ELSE FALSE

(* Date texts and the calendar day pandas parses them to (days since       *)
(* 2021-01-01); every other text is unparseable.                           *)
TXT_0101 == <<"2","0","2","1","-","0","1","-","0","1">>
TXT_0110 == <<"2","0","2","1","-","0","1","-","1","0">>
TXT_BAD == <<"s","o","o","n">>

ParseDate(s) ==
    CASE s = TXT_0101 -> Ts(0)
      [] s = TXT_0110 -> Ts(9)
      [] OTHER -> NaT

\* pd.to_datetime(..., errors="coerce") on one cell
to_datetime(cell) ==
    CASE cell.k = "str" -> ParseDate(cell.s)
      [] cell.k = "date" -> Ts(cell.d)
      [] cell.k = "ts" -> cell
      [] OTHER -> NaT

\* Series.dt.date on one cell
dt_date(cell) == IF cell.k = "ts" THEN Date(cell.d) ELSE NaT

-----------------------------------------------------------------------------
(* Rule 1: fix_invoice_reference *)
_fix(ref) ==
    IF isna(ref) \/ ref.s = <<>> THEN ref
    ELSE Str(Replace(Replace(MapUpper(ref.s), " ", <<>>), "/", <<"-">>))

fix_invoice_reference_work(t) ==
    [i \in DOMAIN t |-> [t[i] EXCEPT ![COL_REF] = _fix(t[i][COL_REF])]]

\* faulty variant: str.match(..., na=True), missing references are not flagged
fix_invoice_reference_bad_na(t) ==
    LET work == fix_invoice_reference_work(t)
    IN  Rows(work, {i \in DOMAIN work : ~isna(work[i][COL_REF]) /\ ~str_match(work[i][COL_REF])})

fix_invoice_reference_bad(t) ==
    LET work == fix_invoice_reference_work(t)
    IN  Rows(work, {i \in DOMAIN work : ~str_match(work[i][COL_REF])})

(* Rule 2: fix_dates *)
fix_dates_col(t, c) ==
    [i \in DOMAIN t |-> [t[i] EXCEPT ![c] = dt_date(to_datetime(t[i][c]))]]

fix_dates_bad(t, c) == Rows(t, {i \in DOMAIN t : isna(to_datetime(t[i][c]))})

fix_dates_work(t) == fix_dates_col(fix_dates_col(t, DATE_COLS[1]), DATE_COLS[2])

fix_dates_issues(t) ==
    (DATE_COLS[1] :> fix_dates_bad(t, DATE_COLS[1])) @@
    (DATE_COLS[2] :> fix_dates_bad(fix_dates_col(t, DATE_COLS[1]), DATE_COLS[2]))

(* Rule 3: recalc_days_to_pay *)
\* faulty variant: invoice date minus paid date
computed_swapped(row) ==
    LET invoice_dates == to_datetime(row[COL_DATE_INV])
        paid_dates == to_datetime(row[COL_DATE_PAID])
    IN  IF isna(invoice_dates) \/ isna(paid_dates) THEN NaN
        ELSE Num(invoice_dates.d - paid_dates.d)

computed(row) ==
    LET invoice_dates == to_datetime(row[COL_DATE_INV])
        paid_dates == to_datetime(row[COL_DATE_PAID])
    IN  IF isna(invoice_dates) \/ isna(paid_dates) THEN NaN
        ELSE Num(paid_dates.d - invoice_dates.d)

\* elementwise != of two numeric cells: NaN differs from everything
ne(a, b) == IF isna(a) \/ isna(b) THEN TRUE ELSE a.v # b.v

recalc_mismatch(t) == Rows(t, {i \in DOMAIN t : ne(computed(t[i]), t[i][COL_DAYS])})

recalc_work(t) == [i \in DOMAIN t |-> [t[i] EXCEPT ![COL_DAYS] = computed(t[i])]]

\* dtype of (paid_dates - invoice_dates).dt.days
days_kind(t) == IF \E i \in DOMAIN t : isna(computed(t[i])) THEN "f" ELSE "i"

(* Rule 4: fix_paid_vs_invoice *)
\* elementwise > of two numeric cells: False when either is NaN
gt(a, b) == IF isna(a) \/ isna(b) THEN FALSE ELSE a.v > b.v

clip_mask(t, i) == gt(t[i][COL_PAID_AMT], t[i][COL_INV_AMT])

clip_work(t) ==
    [i \in DOMAIN t |->
        IF clip_mask(t, i) THEN [t[i] EXCEPT ![COL_PAID_AMT] = t[i][COL_INV_AMT]]
        ELSE t[i]]

\* faulty variant: the flagged rows are read after the clip was written
clip_flagged_after(t) == Rows(clip_work(t), {i \in DOMAIN t : clip_mask(t, i)})

clip_flagged(t) == Rows(t, {i \in DOMAIN t : clip_mask(t, i)})

(* Rule 5: fill_missing *)
any_missing(row) == \E c \in Cols : isna(row[c])

fill_missing_rows(t) == Rows(t, {i \in DOMAIN t : any_missing(t[i])})

fillna(cell, kind) ==
    IF isna(cell) THEN (IF kind \in {"b", "i", "u", "f", "c"} THEN Num(0) ELSE Str(<<>>))
    ELSE cell

\* faulty variant: only the numeric columns are filled
fill_work_numeric(t, kinds) ==
    [i \in DOMAIN t |-> [c \in Cols |->
        IF kinds[c] \in {"b", "i", "u", "f", "c"} THEN fillna(t[i][c], kinds[c]) ELSE t[i][c]]]

fill_work(t, kinds) ==
    [i \in DOMAIN t |-> [c \in Cols |-> fillna(t[i][c], kinds[c])]]

-----------------------------------------------------------------------------
(* Input tables *)
\* dtype pandas gives a numeric column: float64 as soon as it holds a NaN
NumKind(t, c) == IF \E i \in DOMAIN t : isna(t[i][c]) THEN "f" ELSE "i"

InferKinds(t) ==
    [c \in Cols |-> IF c \in {COL_REF, COL_DATE_INV, COL_DATE_PAID} THEN "O"
                    ELSE NumKind(t, c)]

REF_OK == Str(<<"2","0","2","1","-","7">>)
REF_OK2 == Str(<<"2","0","2","1","-","8">>)

RefCells ==
    { REF_OK,
      Str(<<"2","0","2","1","/","7">>),
      Str(<<"2","0","2","1"," ","/"," ","7">>),
      Str(<<"2","1","-","7">>),
      Str(<<"i","n","v","/","7">>),
      Str(<<"2","0","2","1","-">>),
      Str(<<>>),
      NaN }

AmtCells == {NaN} \cup {Num(n) : n \in 0..MaxAmt}

\* rows that vary the two amounts
AmtRows ==
    { MkRow(Num(1), REF_OK, Str(TXT_0101), inv, paid, Str(TXT_0110), Num(9)) :
        inv \in AmtCells, paid \in AmtCells }

\* rows that vary the references
RefRows ==
    { MkRow(Num(1), ref, Str(TXT_0101), Num(1), Num(1), Str(TXT_0110), Num(9)) :
        ref \in RefCells }

\* rows that vary the dates and the recorded days-to-pay
DateRows ==
    { MkRow(Num(1), REF_OK, dinv, Num(1), Num(1), dpaid, days) :
        dinv \in {Str(TXT_0101), Str(TXT_0110), Str(TXT_BAD)},
        dpaid \in {Str(TXT_0101), Str(TXT_0110), Str(<<>>), NaN},
        days \in {NaN, Num(9)} }

\* rows that vary the client, the reference and the paid date
ClientRows ==
    { MkRow(client, ref, Str(TXT_0101), Num(2), Num(1), dpaid, Num(0)) :
        client \in {Num(1), Num(2), NaN},
        ref \in {REF_OK, REF_OK2},
        dpaid \in {Str(TXT_0101), Str(TXT_0110), Str(<<>>)} }

RECURSIVE SeqsUpTo(_, _)
SeqsUpTo(S, n) ==
    IF n = 0 THEN {<<>>}
    ELSE LET P == SeqsUpTo(S, n - 1)
         IN  P \cup {Append(s, x) : s \in {q \in P : Len(q) = n - 1}, x \in S}

Tables ==
    SeqsUpTo(AmtRows, MaxRows) \cup SeqsUpTo(RefRows, MaxRows) \cup
    SeqsUpTo(DateRows, MaxRows) \cup SeqsUpTo(ClientRows, MaxRows)

-----------------------------------------------------------------------------
NoApi == [loaded |-> FALSE, df |-> <<>>, companies |-> <<>>]
NoResp == [status |-> 0]
NoFirst == [table |-> <<>>, report |-> EmptyReport]

\* clean_and_validate is entered with one of the tables of T
InitFrom(T) ==
    /\ input \in T
    /\ df = input
    /\ dtype = InferKinds(input)
    /\ report = EmptyReport
    /\ pc = "reference"
    /\ run = 1
    /\ first = NoFirst
    /\ trace = <<>>
    /\ api = NoApi
    /\ resp = NoResp

Init == InitFrom(Tables)

\* one rule of clean_and_validate: df, report[key] = rule(arg)
Step(rule, key, next, arg, work, rep, kinds) ==
    /\ pc = rule
    /\ df' = work
    /\ dtype' = kinds
    /\ report' = (key :> rep) @@ report
    /\ trace' = Append(trace, [rule |-> rule, key |-> key, in |-> arg,
                               out |-> work, rep |-> rep])
    /\ pc' = next
    /\ UNCHANGED <<input, run, first, api, resp>>

RuleReference ==
    Step("reference", "invoice_reference_fixed", "dates", df,
         fix_invoice_reference_work(df), fix_invoice_reference_bad(df), dtype)

RuleDates ==
    Step("dates", "date_format_fixed", "days", df,
         fix_dates_work(df), fix_dates_issues(df), dtype)

RuleDays ==
    Step("days", "days_to_pay_fixed", "clip", df,
         recalc_work(df), recalc_mismatch(df),
         [dtype EXCEPT ![COL_DAYS] = days_kind(df)])

\* faulty variant: the clip rule is handed the table clean_and_validate was called with
RuleClip_stale ==
    Step("clip", "paid_gt_invoice_clipped", "fill", input,
         clip_work(input), clip_flagged(input), dtype)

RuleClip ==
    Step("clip", "paid_gt_invoice_clipped", "fill", df,
         clip_work(df), clip_flagged(df), dtype)

RuleFill ==
    Step("fill", "missing_values_filled", "done", df,
         fill_work(df, dtype), fill_missing_rows(df), dtype)

\* clean_and_validate(T1): the cleaned table is cleaned a second time
Rerun ==
    /\ pc = "done"
    /\ run = 1
    /\ first' = [table |-> df, report |-> report]
    /\ input' = df
    /\ df' = df
    /\ report' = EmptyReport
    /\ trace' = <<>>
    /\ run' = 2
    /\ pc' = "reference"
    /\ UNCHANGED <<dtype, api, resp>>

Next == RuleReference \/ RuleDates \/ RuleDays \/ RuleClip \/ RuleFill \/ Rerun

Spec == Init /\ [][Next]_vars

\* the runs on tables whose references and dates are all well-formed
InitAmt == InitFrom(SeqsUpTo(AmtRows, MaxRows))

SpecAmt == InitAmt /\ [][Next]_vars

-----------------------------------------------------------------------------
(* invoices_clean.csv: clean_df.to_csv(index=False), then pd.read_csv     *)
DigitChar(n) ==
    CASE n = 0 -> "0" [] n = 1 -> "1" [] n = 2 -> "2" [] n = 3 -> "3" [] n = 4 -> "4"
      [] n = 5 -> "5" [] n = 6 -> "6" [] n = 7 -> "7" [] n = 8 -> "8" [] n = 9 -> "9"

DigitVal(c) == CHOOSE n \in 0..9 : DigitChar(n) = c

\* str() of a non-negative int64 / float64 holding a whole number
RECURSIVE IntText(_)
IntText(n) == IF n < 10 THEN <<DigitChar(n)>> ELSE IntText(n \div 10) \o <<DigitChar(n % 10)>>

NumText(n, kind) == IF kind = "f" THEN IntText(n) \o <<".", "0">> ELSE IntText(n)

\* str() of a python date
FormatDate(d) == CASE d = 0 -> TXT_0101 [] d = 9 -> TXT_0110

\* the text to_csv writes for one cell
to_csv(cell, kind) ==
    CASE cell.k = "num" -> NumText(cell.v, kind)
      [] cell.k = "str" -> cell.s
      [] cell.k = "date" -> FormatDate(cell.d)
      [] OTHER -> <<>>

\* int(text): the value, or -1 for ValueError
RECURSIVE int(_)
int(s) ==
    IF s = <<>> \/ \E i \in 1..Len(s) : s[i] \notin Digits THEN -1
    ELSE IF Len(s) = 1 THEN DigitVal(s[1])
    ELSE 10 * int(SubSeq(s, 1, Len(s) - 1)) + DigitVal(s[Len(s)])

\* read_csv of a numeric field: "1" and "1.0" both give the number 1
read_num(s) ==
    IF s = <<>> THEN NaN
    ELSE IF Len(s) > 2 /\ SubSeq(s, Len(s) - 1, Len(s)) = <<".", "0">>
         THEN Num(int(SubSeq(s, 1, Len(s) - 2)))
         ELSE Num(int(s))

\* read_csv of a text field: the empty field is NaN
read_str(s) == IF s = <<>> THEN NaN ELSE Str(s)

\* read_csv(parse_dates=...) of a date field
read_date(s) == IF s = <<>> THEN NaT ELSE ParseDate(s)

\* dtype read_csv infers for a numeric column from its texts
read_kind(t, kinds, c) ==
    IF \E i \in DOMAIN t : LET s == to_csv(t[i][c], kinds[c])
                           IN  s = <<>> \/ \E j \in 1..Len(s) : s[j] = "."
    THEN "f" ELSE "i"

\* one row of the module-level df of app.py (snake_case columns, days_to_pay added)
api_row(row, kinds) ==
    LET di == read_date(to_csv(row[COL_DATE_INV], kinds[COL_DATE_INV]))
        dp == read_date(to_csv(row[COL_DATE_PAID], kinds[COL_DATE_PAID]))
    IN  [client_name |-> read_num(to_csv(row[COL_CLIENT], kinds[COL_CLIENT])),
         invoice_reference |-> read_str(to_csv(row[COL_REF], kinds[COL_REF])),
         date_invoiced |-> di,
         invoice_amount |-> read_num(to_csv(row[COL_INV_AMT], kinds[COL_INV_AMT])),
         paid_amount |-> read_num(to_csv(row[COL_PAID_AMT], kinds[COL_PAID_AMT])),
         date_paid |-> dp,
         days_to_pay |-> IF isna(di) \/ isna(dp) THEN NaN ELSE Num(dp.d - di.d)]

\* a company identifier "company_<id>"; any other request string has no '_'
Company(id) == [prefix |-> "company", id |-> id]

\* sorted(...) of a set of identifiers, by the number they print
RECURSIVE SortNums(_)
SortNums(S) ==
    IF S = {} THEN <<>>
    ELSE LET m == CHOOSE x \in S : \A y \in S : x <= y
         IN  <<m>> \o SortNums(S \ {m})

companies_of(adf, kind) ==
    LET names == {adf[i].client_name.v : i \in {j \in DOMAIN adf : ~isna(adf[j].client_name)}}
        sorted == SortNums(names)
    IN  [i \in DOMAIN sorted |-> Company(NumText(sorted[i], kind))]

LoadApi ==
    /\ pc = "done"
    /\ run = 1
    /\ ~api.loaded
    /\ Len(df) > 0
    /\ LET adf == [i \in DOMAIN df |-> api_row(df[i], dtype)]
       IN  api' = [loaded |-> TRUE, df |-> adf,
                   companies |-> companies_of(adf, read_kind(df, dtype, COL_CLIENT))]
    /\ UNCHANGED <<input, df, dtype, report, pc, run, first, trace, resp>>

-----------------------------------------------------------------------------
(* Request handlers of app.py *)
Range(s) == {s[i] : i \in DOMAIN s}

\* _company_df: "404", "500" (int() raises ValueError) or the indices of the rows
company_status(name) ==
    IF name \notin Range(api.companies) THEN 404
    ELSE IF int(name.id) < 0 THEN 500
    ELSE 200

_company_df(name) ==
    {i \in DOMAIN api.df : api.df[i].client_name = Num(int(name.id))}

\* positions of the rows of idx ordered by date_invoiced, NaT last, stable
RECURSIVE SortByDate(_)
SortByDate(idx) ==
    IF idx = {} THEN <<>>
    ELSE LET key(i) == IF isna(api.df[i].date_invoiced) THEN 1000000
                       ELSE api.df[i].date_invoiced.d
             m == CHOOSE i \in idx : \A j \in idx :
                      key(i) < key(j) \/ (key(i) = key(j) /\ i <= j)
         IN  <<m>> \o SortByDate(idx \ {m})

RECURSIVE SumDays(_)
SumDays(idx) ==
    IF idx = {} THEN 0
    ELSE LET i == CHOOSE j \in idx : TRUE
         IN  api.df[i].days_to_pay.v + SumDays(idx \ {i})

\* rows of cdf whose days_to_pay is not NaN (mean, min and max skip NaN)
valid_days(cdf) == {i \in cdf : ~isna(api.df[i].days_to_pay)}

\* faulty variant: >= instead of >
late_mask_ge(cdf, i) ==
    LET v == valid_days(cdf)
    IN  i \in v /\ api.df[i].days_to_pay.v * Cardinality(v) >= SumDays(v)

\* cdf["days_to_pay"] > avg_dtp, the mean held as the fraction sum / n
late_mask(cdf, i) ==
    LET v == valid_days(cdf)
    IN  i \in v /\ api.df[i].days_to_pay.v * Cardinality(v) > SumDays(v)

RECURSIVE late_list(_, _)
late_list(cdf, i) ==
    IF i > Len(api.df) THEN <<>>
    ELSE (IF i \in cdf /\ late_mask(cdf, i) THEN <<api.df[i].invoice_reference>> ELSE <<>>)
         \o late_list(cdf, i + 1)

RequestNames == Range(api.companies) \cup {Company(<<"9">>), [prefix |-> "nobody", id |-> <<>>]}

list_companies ==
    /\ api.loaded
    /\ resp' = [status |-> 200, op |-> "companies", body |-> api.companies]
    /\ UNCHANGED <<input, df, dtype, report, pc, run, first, trace, api>>

invoices ==
    /\ api.loaded
    /\ \E name \in RequestNames :
        LET st == company_status(name)
            cdf == _company_df(name)
            order == SortByDate(cdf)
        IN  resp' = IF st # 200 THEN [status |-> st, op |-> "invoices", name |-> name]
                    ELSE [status |-> 200, op |-> "invoices", name |-> name,
                          body |-> [k \in DOMAIN order |->
                             [invoice_reference |-> api.df[order[k]].invoice_reference,
                              date_invoiced |-> api.df[order[k]].date_invoiced,
                              invoice_amount |-> api.df[order[k]].invoice_amount,
                              paid_amount |-> api.df[order[k]].paid_amount,
                              days_to_pay |-> api.df[order[k]].days_to_pay]]]
    /\ UNCHANGED <<input, df, dtype, report, pc, run, first, trace, api>>

metrics ==
    /\ api.loaded
    /\ \E name \in RequestNames :
        LET st == company_status(name)
            cdf == _company_df(name)
            v == valid_days(cdf)
        IN  resp' = IF st # 200 THEN [status |-> st, op |-> "metrics", name |-> name]
                    \* int(cdf["days_to_pay"].min()) raises on NaN
                    ELSE IF v = {} THEN [status |-> 500, op |-> "metrics", name |-> name]
                    ELSE [status |-> 200, op |-> "metrics", name |-> name,
                          body |-> [average_days_to_pay |->
                                        [sum |-> SumDays(v), n |-> Cardinality(v)],
                                    min_days_to_pay |->
                                        CHOOSE d \in {api.df[i].days_to_pay.v : i \in v} :
                                            \A i \in v : d <= api.df[i].days_to_pay.v,
                                    max_days_to_pay |->
                                        CHOOSE d \in {api.df[i].days_to_pay.v : i \in v} :
                                            \A i \in v : d >= api.df[i].days_to_pay.v,
                                    late_invoices |-> late_list(cdf, 1)]]
    /\ UNCHANGED <<input, df, dtype, report, pc, run, first, trace, api>>

\* the cleaned table of one run is persisted and served
ApiTables == SeqsUpTo(ClientRows, MaxRows)

InitApi == InitFrom(ApiTables)

NextApi ==
    \/ RuleReference \/ RuleDates \/ RuleDays \/ RuleClip \/ RuleFill
    \/ LoadApi \/ list_companies \/ invoices \/ metrics

SpecApi == InitApi /\ [][NextApi]_vars

-----------------------------------------------------------------------------
(* Properties *)
ORDER == <<"reference", "dates", "days", "clip", "fill">>
KEYS == {"invoice_reference_fixed", "date_format_fixed", "days_to_pay_fixed",
         "paid_gt_invoice_clipped", "missing_values_filled"}
NumericCols == {COL_CLIENT, COL_INV_AMT, COL_PAID_AMT, COL_DAYS}

\* the entries of the history written by one rule
Ran(rule) == {k \in DOMAIN trace : trace[k].rule = rule}

\* C1 (as stated): in the returned table every row has paid amount <= invoice
\* amount, rows whose amounts were missing on input included.
C1_PaidLeInvoice ==
    pc = "done" =>
        \A i \in DOMAIN df : df[i][COL_PAID_AMT].v <= df[i][COL_INV_AMT].v

\* C2 (as stated): in the returned table days-to-pay is paid date minus invoice
\* date when both dates are non-null, and the missing marker otherwise.
C2_DaysOrMissing ==
    pc = "done" =>
        \A i \in DOMAIN df :
            IF df[i][COL_DATE_INV].k = "date" /\ df[i][COL_DATE_PAID].k = "date"
            THEN df[i][COL_DAYS] = Num(df[i][COL_DATE_PAID].d - df[i][COL_DATE_INV].d)
            ELSE isna(df[i][COL_DAYS])

\* C2 (amended): in the returned table days-to-pay is paid date minus invoice
\* date when both dates are non-null, and 0 (the numeric fill value) when either
\* date is null (a null date is returned as the empty string).
C2_DaysOrZero ==
    pc = "done" =>
        \A i \in DOMAIN df :
            IF df[i][COL_DATE_INV].k = "date" /\ df[i][COL_DATE_PAID].k = "date"
            THEN df[i][COL_DAYS] = Num(df[i][COL_DATE_PAID].d - df[i][COL_DATE_INV].d)
            ELSE /\ df[i][COL_DAYS] = Num(0)
                 /\ Str(<<>>) \in {df[i][COL_DATE_INV], df[i][COL_DATE_PAID]}

C2_Witness ==
    /\ pc = "done"
    /\ \E i \in DOMAIN df : df[i][COL_DATE_INV].k = "date" /\ df[i][COL_DATE_PAID].k = "date"
                            /\ df[i][COL_DAYS].v < 0 /\ input[i][COL_DAYS] # df[i][COL_DAYS]
    /\ \E i \in DOMAIN df : df[i][COL_DATE_PAID] = Str(<<>>) /\ input[i][COL_DAYS] = Num(9)

\* C3: every row of the returned table has a reference matching ^\d{4}-\d+$ or
\* is in the report invoice_reference_fixed; rows whose reference was empty or
\* missing are in that report.
C3_RefMatchesOrReported ==
    pc = "done" =>
        \A i \in DOMAIN df :
            /\ str_match(df[i][COL_REF]) \/ i \in DOMAIN report["invoice_reference_fixed"]
            /\ (isna(input[i][COL_REF]) \/ input[i][COL_REF] = Str(<<>>))
                   => i \in DOMAIN report["invoice_reference_fixed"]

C3_Witness ==
    /\ pc = "done"
    /\ run = 1
    /\ \E i \in DOMAIN df : isna(input[i][COL_REF])
    /\ \E i \in DOMAIN df : ~str_match(input[i][COL_REF]) /\ str_match(df[i][COL_REF])
                            /\ i \notin DOMAIN report["invoice_reference_fixed"]

\* C4 (as stated): cleaning the cleaned table again returns an identical table
\* and flags no row under invoice_reference_fixed, date_format_fixed (either
\* date column) and days_to_pay_fixed.
C4_Idempotent ==
    (pc = "done" /\ run = 2) =>
        /\ df = first.table
        /\ DOMAIN report["invoice_reference_fixed"] = {}
        /\ \A c \in {COL_DATE_INV, COL_DATE_PAID} : DOMAIN report["date_format_fixed"][c] = {}
        /\ DOMAIN report["days_to_pay_fixed"] = {}

\* C5: a run applies the five rules once each in the order reference, dates,
\* days, clip, fill, each on the table the previous one returned, and the
\* returned report has exactly the five rule keys, each holding the report of
\* that rule's execution.
C5_OneOrderedPass ==
    /\ Len(trace) <= Len(ORDER)
    /\ \A k \in DOMAIN trace :
        /\ trace[k].rule = ORDER[k]
        /\ trace[k].in = (IF k = 1 THEN input ELSE trace[k - 1].out)
        /\ report[trace[k].key] = trace[k].rep
    /\ DOMAIN report = {trace[k].key : k \in DOMAIN trace}
    /\ Cardinality(DOMAIN report) = Len(trace)
    /\ pc = "done" =>
        /\ Len(trace) = Len(ORDER)
        /\ DOMAIN report = KEYS
        /\ df = trace[Len(trace)].out

C5_Witness ==
    /\ pc = "done"
    /\ run = 1
    /\ trace[2].out # trace[2].in
    /\ trace[4].out # trace[4].in
    /\ trace[5].out # trace[5].in
    /\ \A key \in {"paid_gt_invoice_clipped", "missing_values_filled"} : DOMAIN report[key] # {}

\* C6 (as stated): invoices and metrics answer 200 for every identifier of the
\* companies list (metrics with average_days_to_pay) and 404 for every other.
C6_KnownOkUnknown404 ==
    (resp.status # 0 /\ resp.op \in {"invoices", "metrics"}) =>
        IF resp.name \in Range(api.companies)
        THEN /\ resp.status = 200
             /\ resp.op = "metrics" => "average_days_to_pay" \in DOMAIN resp.body
        ELSE resp.status = 404

\* C7: late_invoices are exactly the references of the company's rows whose
\* days-to-pay is strictly greater than the mean of that company's days-to-pay
\* values; a row whose days-to-pay equals the mean is not late.
C7_LateIsAboveOwnMean ==
    (resp.status = 200 /\ resp.op = "metrics") =>
        LET mine == {i \in DOMAIN api.df : api.df[i].client_name.v = int(resp.name.id)}
            have == {i \in mine : api.df[i].days_to_pay.k = "num"}
            total == SumDays(have)
            above(i) == i \in have /\ api.df[i].days_to_pay.v * Cardinality(have) > total
            ids == [i \in 1..Len(api.df) |-> i]
            late == SelectSeq(ids, above)
        IN  /\ resp.body.late_invoices = [k \in DOMAIN late |-> api.df[late[k]].invoice_reference]
            /\ resp.body.average_days_to_pay = [sum |-> total, n |-> Cardinality(have)]

C7_Witness ==
    /\ resp.status = 200
    /\ resp.op = "metrics"
    /\ Len(resp.body.late_invoices) = 1
    /\ Len(api.df) = 2
    /\ api.df[1].client_name = api.df[2].client_name
    /\ api.df[1].invoice_reference # api.df[2].invoice_reference

\* C8 (as stated): the report of recalc_days_to_pay holds exactly the rows whose
\* recomputed days-to-pay differs from the recorded one; missing before and
\* missing after is not a difference.
C8_MismatchIsChange ==
    \A k \in Ran("days") :
        DOMAIN trace[k].rep =
            {i \in DOMAIN trace[k].in : trace[k].out[i][COL_DAYS] # trace[k].in[i][COL_DAYS]}

\* C9: the report of fix_paid_vs_invoice holds exactly the rows whose paid amount
\* exceeded the invoice amount on entry, with their pre-clip values; those rows
\* leave with paid amount = invoice amount; nothing else changes.
C9_ClipReportAndFrame ==
    \A k \in Ran("clip") :
        LET old == trace[k].in
            new == trace[k].out
            over == {i \in DOMAIN old :
                        /\ old[i][COL_PAID_AMT].k = "num" /\ old[i][COL_INV_AMT].k = "num"
                        /\ old[i][COL_PAID_AMT].v > old[i][COL_INV_AMT].v}
        IN  /\ DOMAIN trace[k].rep = over
            /\ \A i \in over : trace[k].rep[i] = old[i]
            /\ DOMAIN new = DOMAIN old
            /\ \A i \in DOMAIN old : \A c \in Cols :
                  new[i][c] = (IF i \in over /\ c = COL_PAID_AMT THEN old[i][COL_INV_AMT]
                               ELSE old[i][c])

C9_Witness ==
    \E k \in Ran("clip") :
        /\ DOMAIN trace[k].rep # {}
        /\ DOMAIN trace[k].rep # DOMAIN trace[k].in
        /\ \E i \in DOMAIN trace[k].rep :
              trace[k].rep[i][COL_PAID_AMT] # trace[k].out[i][COL_PAID_AMT]

\* C10: the returned table has no missing field (missing numerics are 0, missing
\* strings and dates the empty string) and missing_values_filled holds exactly
\* the rows with a missing field right before the fill rule, with those values.
C10_FilledAndReported ==
    /\ pc = "done" => \A i \in DOMAIN df : \A c \in Cols : df[i][c].k \in {"num", "str", "date"}
    /\ \A k \in Ran("fill") :
        LET old == trace[k].in
            new == trace[k].out
            holes == {i \in DOMAIN old : \E c \in Cols : old[i][c] \in {NaN, NaT}}
        IN  /\ DOMAIN trace[k].rep = holes
            /\ \A i \in holes : trace[k].rep[i] = old[i]
            /\ DOMAIN new = DOMAIN old
            /\ \A i \in DOMAIN old : \A c \in Cols :
                  new[i][c] = (IF old[i][c] \notin {NaN, NaT} THEN old[i][c]
                               ELSE IF c \in NumericCols THEN Num(0) ELSE Str(<<>>))

C10_Witness ==
    /\ pc = "done"
    /\ \E k \in Ran("fill") :
        /\ DOMAIN trace[k].rep # {}
        /\ DOMAIN trace[k].rep # DOMAIN trace[k].in
        /\ \E i \in DOMAIN trace[k].rep :
              /\ trace[k].in[i][COL_DATE_PAID] = NaT
              /\ trace[k].in[i][COL_DAYS] = NaN
              /\ df[i][COL_DATE_PAID] = Str(<<>>)
              /\ df[i][COL_DAYS] = Num(0)

====
